---- MODULE Spec2Model ----
(***************************************************************************)
(* Fire spread emulator (src/main.py): the cellular automaton of Cell and  *)
(* CellManager and the three handlers that drive it: game_loop (one call   *)
(* of update_cells), ignite_cell (left click) and toggle_wall (right       *)
(* click).  Turtle drawing (shape, goto, screen.update) is not state.      *)
(***************************************************************************)
EXTENDS Integers, Sequences, FiniteSets, TLC

VARIABLES
    GRID_SIZE,        \* main.py:8   side of the grid, in cells
    FUEL_REMAINING,   \* main.py:13  ticks a cell burns
    HEAT_TO_IGNITE,   \* main.py:15  cumulative heat that ignites a cell
    ASH_TIME,         \* main.py:17  ticks an ash cell waits before refresh
    cells,            \* CellManager.cells: <<row, col>> -> the Cell's fields
    neighbours,       \* Cell.neighbours of every cell, as a list of <<row, col>>
    ticks,            \* number of update_cells calls so far
    clicks,           \* number of ignite_cell and toggle_wall calls so far
    became_ash,       \* history: for every ash cell, the tick that extinguished it
    origin            \* single-fire runs: the cell the fire was started in

config == <<GRID_SIZE, FUEL_REMAINING, HEAT_TO_IGNITE, ASH_TIME>>
vars == <<GRID_SIZE, FUEL_REMAINING, HEAT_TO_IGNITE, ASH_TIME,
          cells, neighbours, ticks, clicks, became_ash, origin>>

\* Size in pixels of each cell.
CELL_SIZE == 20

\* Bounds of the exploration: calls of each handler in one run.
MaxTicks == 5
MaxClicks == 3
\* Single-fire runs: calls of update_cells after the one ignition.
MaxFireTicks == 12

\* The module constants, scaled down from GRID_SIZE = 32, FUEL_REMAINING = 40,
\* HEAT_TO_IGNITE = 5, ASH_TIME = 80 so that whole burn cycles fit in a run.
Configs ==
    { [GRID_SIZE |-> 3, FUEL_REMAINING |-> 2, HEAT_TO_IGNITE |-> 2, ASH_TIME |-> 1] }

\* Constants of the single-fire runs.
FireConfigs ==
    { [GRID_SIZE |-> 3, FUEL_REMAINING |-> 2, HEAT_TO_IGNITE |-> 1, ASH_TIME |-> 1],
      [GRID_SIZE |-> 4, FUEL_REMAINING |-> 3, HEAT_TO_IGNITE |-> 2, ASH_TIME |-> 2],
      [GRID_SIZE |-> 5, FUEL_REMAINING |-> 2, HEAT_TO_IGNITE |-> 1, ASH_TIME |-> 1] }

None == <<>>

(***************************************************************************)
(* Cell                                                                    *)
(***************************************************************************)

\* Cell.__init__
Cell_init ==
    [ fuel_remaining    |-> FUEL_REMAINING,
      heat              |-> 0,
      ignited           |-> FALSE,
      ash               |-> FALSE,
      time_as_ash       |-> 0,
      ignited_this_tick |-> FALSE,
      wall              |-> FALSE ]

\* Mutant of ignite: the heat is reset on ignition.
ignite_cooled(self) ==
    [self EXCEPT !.ignited = TRUE, !.ignited_this_tick = TRUE, !.heat = 0]

\* Cell.ignite
ignite(self) ==
    [self EXCEPT !.ignited = TRUE, !.ignited_this_tick = TRUE]

\* Mutant of extinguish: the heat is kept.
extinguish_warm(self) ==
    [self EXCEPT !.ignited = FALSE, !.ash = TRUE]

\* Cell.extinguish
extinguish(self) ==
    [self EXCEPT !.heat = 0, !.ignited = FALSE, !.ash = TRUE]

\* Cell.burn
burn(self) ==
    LET s1 == IF self.ignited_this_tick
              THEN [self EXCEPT !.ignited_this_tick = FALSE]
              ELSE self
        s2 == [s1 EXCEPT !.fuel_remaining = @ - 1]
    IN  IF s2.fuel_remaining = 0 THEN extinguish(s2) ELSE s2

\* Mutant of refresh: the ash flag is not cleared.
refresh_keeps_ash(self) ==
    [self EXCEPT !.time_as_ash = 0,
                 !.fuel_remaining = FUEL_REMAINING]

\* Cell.refresh
refresh(self) ==
    [self EXCEPT !.time_as_ash = 0,
                 !.fuel_remaining = FUEL_REMAINING,
                 !.ash = FALSE]

\* Mutant of update_state: the threshold must be exceeded, not reached.
update_state_strict(self, neighbours_burning) ==
    IF self.ignited THEN burn(self)
    ELSE IF self.ash THEN
        LET s1 == [self EXCEPT !.time_as_ash = @ + 1]
        IN  IF s1.time_as_ash > ASH_TIME THEN refresh(s1) ELSE s1
    ELSE IF neighbours_burning > 0 THEN
        LET s1 == [self EXCEPT !.heat = @ + neighbours_burning]
        IN  IF s1.heat > HEAT_TO_IGNITE THEN ignite(s1) ELSE s1
    ELSE self

\* Cell.update_state
update_state(self, neighbours_burning) ==
    IF self.ignited THEN burn(self)
    ELSE IF self.ash THEN
        LET s1 == [self EXCEPT !.time_as_ash = @ + 1]
        IN  IF s1.time_as_ash > ASH_TIME THEN refresh(s1) ELSE s1
    ELSE IF neighbours_burning > 0 THEN
        LET s1 == [self EXCEPT !.heat = @ + neighbours_burning]
        IN  IF s1.heat >= HEAT_TO_IGNITE THEN ignite(s1) ELSE s1
    ELSE self

(***************************************************************************)
(* CellManager                                                             *)
(***************************************************************************)

Pos == (0 .. GRID_SIZE - 1) \X (0 .. GRID_SIZE - 1)

\* CellManager.create_cells: cell i (1-based) lands in row (i-1) // grid_size,
\* column (i-1) % grid_size.
create_cells ==
    [p \in Pos |-> Cell_init]

\* CellManager.all_cell_coords: the coordinates in row-major order.
all_cell_coords ==
    [i \in 1 .. GRID_SIZE * GRID_SIZE |->
        <<(i - 1) \div GRID_SIZE, (i - 1) % GRID_SIZE>>]

\* The (dr, dc) pairs in the order the two loops of find_neighbours visit them.
Deltas == <<-1, 0, 1>>
Offsets ==
    [k \in 1 .. Len(Deltas) * Len(Deltas) |->
        <<Deltas[((k - 1) \div Len(Deltas)) + 1], Deltas[((k - 1) % Len(Deltas)) + 1]>>]

\* Mutant of find_neighbours: the diagonal cells are neighbours too.
find_neighbours_diagonal(row, col) ==
    LET keep(o) ==
            /\ ~(o[1] = 0 /\ o[2] = 0)
            /\ 0 <= row + o[1] /\ row + o[1] < GRID_SIZE
            /\ 0 <= col + o[2] /\ col + o[2] < GRID_SIZE
        kept == SelectSeq(Offsets, keep)
    IN  [k \in 1 .. Len(kept) |-> <<row + kept[k][1], col + kept[k][2]>>]

\* CellManager.find_neighbours
find_neighbours(row, col) ==
    LET keep(o) ==
            /\ ~(o[1] = 0 /\ o[2] = 0)
            /\ ~(o[1] # 0 /\ o[2] # 0)
            /\ 0 <= row + o[1] /\ row + o[1] < GRID_SIZE
            /\ 0 <= col + o[2] /\ col + o[2] < GRID_SIZE
        kept == SelectSeq(Offsets, keep)
    IN  [k \in 1 .. Len(kept) |-> <<row + kept[k][1], col + kept[k][2]>>]

\* CellManager.add_neighbours: every list starts empty and is extended once.
add_neighbours ==
    [p \in Pos |-> <<>> \o find_neighbours(p[1], p[2])]

\* Mutant of burning: the cells ignited in this tick count too.
burning_with_fresh(neighbour) ==
    neighbour.ignited

\* The filter of count_neighbours_burning: the neighbour counts as burning.
burning(neighbour) ==
    neighbour.ignited /\ ~neighbour.ignited_this_tick

\* CellManager.count_neighbours_burning, on the grid g
count_neighbours_burning(g, row, col) ==
    LET ns == neighbours[<<row, col>>]
    IN  Cardinality({k \in 1 .. Len(ns) : burning(g[ns[k]])})

\* Mutant of update_cell: walls are not skipped.
update_cell_no_skip(g, row, col) ==
    [g EXCEPT ![<<row, col>>] =
        update_state(g[<<row, col>>], count_neighbours_burning(g, row, col))]

\* One iteration of the loop of update_cells, at the cell (row, col).
update_cell(g, row, col) ==
    IF g[<<row, col>>].wall THEN g
    ELSE [g EXCEPT ![<<row, col>>] =
            update_state(g[<<row, col>>], count_neighbours_burning(g, row, col))]

\* The grids the loop of update_cells passes through in its first k
\* iterations: element 1 is g, element j + 1 the grid after iteration j.
RECURSIVE update_upto(_, _)
update_upto(g, k) ==
    IF k = 0 THEN <<g>>
    ELSE CHOOSE grids \in
            {Append(done, update_cell(done[k], all_cell_coords[k][1],
                                               all_cell_coords[k][2])) :
                done \in {update_upto(g, k - 1)}} : TRUE

\* The grids of one whole call of update_cells.
loop_states(g) == update_upto(g, Len(all_cell_coords))

\* CellManager.update_cells
update_cells(g) == loop_states(g)[Len(all_cell_coords) + 1]

\* The position of the cell p in the order of all_cell_coords.
Index(p) == p[1] * GRID_SIZE + p[2] + 1

\* The neighbours count_neighbours_burning counts for the cell p when the loop
\* of update_cells, having passed through the grids states, reaches p; none
\* for a wall, which the loop skips.
counted_for(states, p) ==
    LET found == states[Index(p)]
        ns == neighbours[p]
    IN  IF found[p].wall THEN {}
        ELSE {ns[k] : k \in {j \in 1 .. Len(ns) : burning(found[ns[j]])}}

\* The neighbours_burning that loop hands to update_state of the cell p.
neighbours_burning_for(states, p) ==
    count_neighbours_burning(states[Index(p)], p[1], p[2])

(***************************************************************************)
(* The click handlers                                                      *)
(***************************************************************************)

\* The pixel -> grid index conversion of ignite_cell and toggle_wall.
grid_index(v) == (v + (GRID_SIZE * CELL_SIZE) \div 2) \div CELL_SIZE

\* Mutant of ignite_cell: the clicked cell burns at once, as if lit in an
\* earlier tick.
ignite_cell_settled(g, x, y) ==
    LET grid_x == grid_index(x)
        grid_y == grid_index(-y)
    IN  IF 0 <= grid_x /\ grid_x < GRID_SIZE /\ 0 <= grid_y /\ grid_y < GRID_SIZE
        THEN LET cell == g[<<grid_y, grid_x>>]
             IN  IF ~cell.ignited /\ ~cell.ash
                 THEN [g EXCEPT ![<<grid_y, grid_x>>].ignited = TRUE]
                 ELSE g
        ELSE g

\* ignite_cell(x, y) on the grid g
ignite_cell(g, x, y) ==
    LET grid_x == grid_index(x)
        grid_y == grid_index(-y)
    IN  IF 0 <= grid_x /\ grid_x < GRID_SIZE /\ 0 <= grid_y /\ grid_y < GRID_SIZE
        THEN LET cell == g[<<grid_y, grid_x>>]
             IN  IF ~cell.ignited /\ ~cell.ash
                 THEN [g EXCEPT ![<<grid_y, grid_x>>] = ignite(cell)]
                 ELSE g
        ELSE g

\* Mutant of toggle_wall: a cell that stops being a wall starts without heat.
toggle_wall_fresh(g, x, y) ==
    LET grid_x == grid_index(x)
        grid_y == grid_index(-y)
    IN  IF 0 <= grid_x /\ grid_x < GRID_SIZE /\ 0 <= grid_y /\ grid_y < GRID_SIZE
        THEN LET cell == g[<<grid_y, grid_x>>]
             IN  IF ~cell.wall /\ ~cell.ignited
                 THEN [g EXCEPT ![<<grid_y, grid_x>>].wall = TRUE]
                 ELSE IF cell.wall
                 THEN [g EXCEPT ![<<grid_y, grid_x>>].wall = FALSE,
                                ![<<grid_y, grid_x>>].heat = 0]
                 ELSE g
        ELSE g

\* toggle_wall(x, y) on the grid g
toggle_wall(g, x, y) ==
    LET grid_x == grid_index(x)
        grid_y == grid_index(-y)
    IN  IF 0 <= grid_x /\ grid_x < GRID_SIZE /\ 0 <= grid_y /\ grid_y < GRID_SIZE
        THEN LET cell == g[<<grid_y, grid_x>>]
             IN  IF ~cell.wall /\ ~cell.ignited
                 THEN [g EXCEPT ![<<grid_y, grid_x>>].wall = TRUE]
                 ELSE IF cell.wall
                 THEN [g EXCEPT ![<<grid_y, grid_x>>].wall = FALSE]
                 ELSE g
        ELSE g

\* Pixel coordinates a click can carry: the first pixel of every column (row),
\* the last pixel off the grid on the low side and the first pixel off the grid
\* on the high side.
ClickCoords ==
    LET half == (GRID_SIZE * CELL_SIZE) \div 2
    IN  {-half - 1} \cup {-half + k * CELL_SIZE : k \in 0 .. GRID_SIZE}

\* The cell a click at (x, y) lands in, None when it is off the grid.
clicked(x, y) ==
    IF 0 <= grid_index(x) /\ grid_index(x) < GRID_SIZE
       /\ 0 <= grid_index(-y) /\ grid_index(-y) < GRID_SIZE
    THEN <<grid_index(-y), grid_index(x)>>
    ELSE None

(***************************************************************************)
(* The program                                                             *)
(***************************************************************************)

\* Module load with the constants c: CellManager.__init__.
Load(c) ==
    /\ GRID_SIZE = c.GRID_SIZE
    /\ FUEL_REMAINING = c.FUEL_REMAINING
    /\ HEAT_TO_IGNITE = c.HEAT_TO_IGNITE
    /\ ASH_TIME = c.ASH_TIME
    /\ cells = create_cells
    /\ neighbours = add_neighbours
    /\ ticks = 0
    /\ clicks = 0
    /\ became_ash = <<>>
    /\ origin = None

Init == \E c \in Configs : Load(c)

\* History of one call of update_cells: the cells it extinguishes are recorded,
\* the cells it refreshes forgotten.
RecordAsh ==
    became_ash' = [p \in {q \in Pos : cells'[q].ash} |->
        IF cells[p].ash THEN became_ash[p] ELSE ticks']

\* game_loop: one call of update_cells.
GameLoop ==
    /\ ticks < MaxTicks
    /\ cells' = update_cells(cells)
    /\ ticks' = ticks + 1
    /\ RecordAsh
    /\ UNCHANGED <<config, neighbours, clicks, origin>>

\* Left click at (x, y).
IgniteCell ==
    /\ clicks < MaxClicks
    /\ \E x \in ClickCoords, y \in ClickCoords :
          cells' = ignite_cell(cells, x, y)
    /\ clicks' = clicks + 1
    /\ UNCHANGED <<config, neighbours, ticks, became_ash, origin>>

\* Right click at (x, y).
ToggleWall ==
    /\ clicks < MaxClicks
    /\ \E x \in ClickCoords, y \in ClickCoords :
          cells' = toggle_wall(cells, x, y)
    /\ clicks' = clicks + 1
    /\ UNCHANGED <<config, neighbours, ticks, became_ash, origin>>

Next == GameLoop \/ IgniteCell \/ ToggleWall

Spec == Init /\ [][Next]_vars

(***************************************************************************)
(* Single-fire runs: a fresh grid, one left click on a cell of the grid,   *)
(* then only game_loop.                                                    *)
(***************************************************************************)

FireInit == \E c \in FireConfigs : Load(c)

StartFire ==
    /\ origin = None
    /\ \E x \in ClickCoords, y \in ClickCoords :
          /\ clicked(x, y) # None
          /\ cells' = ignite_cell(cells, x, y)
          /\ origin' = clicked(x, y)
    /\ clicks' = clicks + 1
    /\ UNCHANGED <<config, neighbours, ticks, became_ash>>

FireLoop ==
    /\ origin # None
    /\ ticks < MaxFireTicks
    /\ cells' = update_cells(cells)
    /\ ticks' = ticks + 1
    /\ RecordAsh
    /\ UNCHANGED <<config, neighbours, clicks, origin>>

FireNext == StartFire \/ FireLoop

FireSpec == FireInit /\ [][FireNext]_vars

(***************************************************************************)
(* Endless runs: the timer of game_loop re-arms itself (screen.ontimer), so *)
(* update_cells is called again and again; left clicks in between, no      *)
(* right click.  These runs keep no count of the ticks and no history.     *)
(***************************************************************************)

TimerLoop ==
    /\ cells' = update_cells(cells)
    /\ UNCHANGED <<config, neighbours, ticks, clicks, became_ash, origin>>

TimerNext == TimerLoop \/ IgniteCell

\* The timer runs are loaded with a smaller grid.
TimerConfigs ==
    { [GRID_SIZE |-> 2, FUEL_REMAINING |-> 2, HEAT_TO_IGNITE |-> 2, ASH_TIME |-> 1],
      [GRID_SIZE |-> 2, FUEL_REMAINING |-> 3, HEAT_TO_IGNITE |-> 1, ASH_TIME |-> 2] }

TimerInit == \E c \in TimerConfigs : Load(c)

TimerSpec == TimerInit /\ [][TimerNext]_vars /\ WF_vars(TimerLoop)

(***************************************************************************)
(* The properties                                                          *)
(***************************************************************************)

\* The step is one call of update_cells.
IsTick == ticks' = ticks + 1

Dormant(cell) == ~cell.ignited /\ ~cell.ash /\ ~cell.wall
Ignited(cell) == cell.ignited /\ ~cell.ash /\ ~cell.wall
Ash(cell)     == cell.ash /\ ~cell.ignited /\ ~cell.wall
Wall(cell)    == cell.wall /\ ~cell.ignited /\ ~cell.ash

NeighbourSet(p) == {neighbours[p][k] : k \in 1 .. Len(neighbours[p])}

\* C1: at all times every cell is in exactly one of the states Dormant,
\* Ignited, Ash, Wall: the flags ignited, ash and wall are pairwise exclusive.
ExactlyOneState ==
    \A p \in Pos :
        /\ ~(cells[p].ignited /\ cells[p].ash)
        /\ ~(cells[p].ignited /\ cells[p].wall)
        /\ ~(cells[p].ash /\ cells[p].wall)

\* C2: within one call of update_cells no cell counts, as burning, a neighbour
\* that becomes ignited during that same call.
SameTickExclusion ==
    [][IsTick =>
        LET states == loop_states(cells)
        IN  \A p \in Pos : \A q \in counted_for(states, p) :
                ~(~cells[q].ignited /\ cells'[q].ignited)]_vars

\* C2 witness: the last tick ignited p by heat (its flag is still up) and the
\* neighbour q the loop reached after p is dormant and took no heat from it.
SameTickExclusionWitness ==
    \E p \in Pos : \E q \in NeighbourSet(p) :
        /\ ticks > 0
        /\ Index(q) > Index(p)
        /\ cells[p].ignited /\ cells[p].ignited_this_tick
        /\ cells[p].heat >= HEAT_TO_IGNITE
        /\ Dormant(cells[q]) /\ cells[q].heat = 0

\* The tick of the specification, section 4.2 and 5: every count is taken
\* from the grid as it stood before the call, then every cell is updated.
snapshot_tick(g) ==
    [p \in Pos |->
        IF g[p].wall THEN g[p]
        ELSE update_state(g[p], count_neighbours_burning(g, p[1], p[2]))]

\* C3: update_cells (row-major, in place) yields the grid of the
\* double-buffered tick, whatever the grid it starts from.
InPlaceEqualsSnapshot ==
    [][IsTick => cells' = snapshot_tick(cells)]_vars

\* C4: a cell ignited by a tick is counted as burning by every non-wall
\* neighbour, before or after it in row-major order, in every later tick at
\* whose start it is still ignited.
CountedUntilExtinguished ==
    [][IsTick =>
        LET states == loop_states(cells)
        IN  \A q \in Pos :
                (cells[q].ignited /\ cells[q].heat >= HEAT_TO_IGNITE) =>
                    \A p \in Pos :
                        (q \in NeighbourSet(p) /\ ~cells[p].wall) =>
                            q \in counted_for(states, p)]_vars

\* C5: update_cells takes exactly 1 from the fuel_remaining of every cell that
\* is ignited when the call starts; the cell is ash afterwards exactly when
\* its fuel reached 0 and ignited otherwise; fuel_remaining is never negative.
BurnsOnePerTick ==
    [][/\ \A p \in Pos : cells'[p].fuel_remaining >= 0
       /\ IsTick =>
            \A p \in Pos :
                cells[p].ignited =>
                    /\ cells'[p].fuel_remaining = cells[p].fuel_remaining - 1
                    /\ cells'[p].ash = (cells'[p].fuel_remaining = 0)
                    /\ cells'[p].ignited = (cells'[p].fuel_remaining > 0)]_vars

\* C6: in a tick a dormant cell that is handed neighbours_burning > 0 adds it
\* to its heat and is ignited afterwards exactly when the sum reaches
\* HEAT_TO_IGNITE; handed 0 it is left as it is. So a cell at
\* HEAT_TO_IGNITE - 1 is not ignited, and ignites on its next unit of heat.
IgnitesAtThreshold ==
    [][IsTick =>
        LET states == loop_states(cells)
        IN  \A p \in Pos :
                Dormant(cells[p]) =>
                    LET n == neighbours_burning_for(states, p)
                    IN  /\ cells'[p].heat = cells[p].heat + n
                        /\ cells'[p].ignited =
                                (n > 0 /\ cells[p].heat + n >= HEAT_TO_IGNITE)
                        /\ n = 0 => cells'[p] = cells[p]
                        /\ (cells[p].heat = HEAT_TO_IGNITE - 1 /\ n >= 1) =>
                                cells'[p].ignited]_vars

\* C6 witness: a tick ignited p with its heat exactly at the threshold, and
\* the dormant cell q waits one unit of heat below the threshold.
IgnitesAtThresholdWitness ==
    \E p, q \in Pos :
        /\ ticks > 0
        /\ cells[p].ignited /\ cells[p].ignited_this_tick
        /\ cells[p].heat = HEAT_TO_IGNITE
        /\ Dormant(cells[q])
        /\ HEAT_TO_IGNITE > 1 /\ cells[q].heat = HEAT_TO_IGNITE - 1

\* C7: a cell that turned to ash in tick T is still ash after each of the
\* ticks T+1 .. T+ASH_TIME and is dormant with full fuel after tick
\* T+ASH_TIME+1, whatever the clicks between the ticks.
RefreshAfterAshTime ==
    [][IsTick =>
        \A p \in DOMAIN became_ash :
            LET T == became_ash[p]
            IN  /\ ticks' - T \in 1 .. ASH_TIME => cells'[p].ash
                /\ ticks' - T = ASH_TIME + 1 =>
                        /\ ~cells'[p].ash /\ ~cells'[p].ignited
                        /\ cells'[p].fuel_remaining = FUEL_REMAINING]_vars

\* C8: update_cells leaves every field of every wall cell as it was.
WallsUntouched ==
    [][IsTick => \A p \in Pos : cells[p].wall => cells'[p] = cells[p]]_vars

\* C8 witness: the neighbour q of the wall p has burnt down to ash, which
\* heats every dormant cell next to it, and the wall p holds no heat.
WallsUntouchedWitness ==
    \E p \in Pos : \E q \in NeighbourSet(p) :
        /\ ticks > 0
        /\ Wall(cells[p]) /\ cells[p].heat = 0
        /\ cells[p].fuel_remaining = FUEL_REMAINING
        /\ Ash(cells[q])
        /\ \E r \in NeighbourSet(q) : Dormant(cells[r]) /\ cells[r].heat > 0

Manhattan(p, q) ==
    (IF p[1] >= q[1] THEN p[1] - q[1] ELSE q[1] - p[1])
    + (IF p[2] >= q[2] THEN p[2] - q[2] ELSE q[2] - p[2])

\* C9: one fire on a fresh grid without walls: after K ticks every ignited or
\* ash cell lies within Manhattan distance K of the origin.
FireWithinManhattan ==
    origin # None =>
        \A p \in Pos :
            (cells[p].ignited \/ cells[p].ash) => Manhattan(p, origin) <= ticks

\* C9 witness: after K >= 2 ticks a cell at distance exactly K is on fire.
FireWithinManhattanWitness ==
    /\ origin # None
    /\ ticks >= 2
    /\ \E p \in Pos : cells[p].ignited /\ Manhattan(p, origin) = ticks

\* The cell diagonally below and to the right of the origin.
Diagonal == <<origin[1] + 1, origin[2] + 1>>

\* C10: one fire on a fresh grid without walls: the cell diagonally adjacent
\* to the origin stays dormant after every number of ticks.
DiagonalStaysDormant ==
    (origin # None /\ Diagonal \in Pos) => Dormant(cells[Diagonal])

\* C10, amended: the diagonal cell is dormant and without heat up to and
\* including the first tick: the origin itself never heats it.
DiagonalDormantFirstTick ==
    (origin # None /\ Diagonal \in Pos /\ ticks <= 1) =>
        /\ Dormant(cells[Diagonal])
        /\ cells[Diagonal].heat = 0

\* C10 witness: after the first tick the fire has taken the cell to the right
\* of the origin, and the diagonal cell is dormant.
DiagonalDormantFirstTickWitness ==
    /\ origin # None /\ Diagonal \in Pos
    /\ ticks = 1
    /\ cells[<<origin[1], origin[2] + 1>>].ignited
    /\ Dormant(cells[Diagonal])

\* The step is a click at (x, y) handled by ignite_cell.
IsIgniteAt(x, y) == ~IsTick /\ cells' = ignite_cell(cells, x, y)

\* The step is a click at (x, y) handled by toggle_wall.
IsToggleAt(x, y) == ~IsTick /\ cells' = toggle_wall(cells, x, y)

\* C11: ignite_cell on a cell that is ignited, ash or a wall changes no field
\* of any cell.
IgniteRejected ==
    [][\A x \in ClickCoords, y \in ClickCoords :
        LET c == clicked(x, y)
        IN  (/\ c # None
             /\ cells[c].ignited \/ cells[c].ash \/ cells[c].wall
             /\ IsIgniteAt(x, y)) => cells' = cells]_vars

\* C12: toggle_wall on a cell that is ignited or ash changes nothing: no
\* burning or ash cell becomes a wall, no ignited cell loses its wall flag.
ToggleRejected ==
    [][\A x \in ClickCoords, y \in ClickCoords :
        LET c == clicked(x, y)
        IN  (/\ c # None
             /\ cells[c].ignited \/ cells[c].ash
             /\ IsToggleAt(x, y)) => cells' = cells]_vars

\* C13: a cell whose wall flag toggle_wall clears is dormant with full fuel
\* afterwards.
ToggleOffDormant ==
    [][\A p \in Pos :
        (cells[p].wall /\ ~cells'[p].wall) =>
            /\ Dormant(cells'[p])
            /\ cells'[p].fuel_remaining = FUEL_REMAINING]_vars

\* C14: two right clicks in a row on the same dormant cell, with no tick in
\* between, give back the grid as it was: every field of the cell, its heat
\* and fuel included, and every other cell.
ToggleTwiceRestores ==
    \A x \in ClickCoords, y \in ClickCoords :
        LET c == clicked(x, y)
        IN  (c # None /\ Dormant(cells[c])) =>
                /\ toggle_wall(cells, x, y)[c].wall
                /\ toggle_wall(toggle_wall(cells, x, y), x, y) = cells

\* C14 witness: a dormant cell that has gathered heat; the first click makes
\* it a wall, the second gives the heat and the full fuel back.
ToggleTwiceRestoresWitness ==
    \E x \in ClickCoords, y \in ClickCoords :
        LET c == clicked(x, y)
        IN  /\ c # None
            /\ Dormant(cells[c]) /\ cells[c].heat > 0
            /\ cells[c].fuel_remaining = FUEL_REMAINING
            /\ Wall(toggle_wall(cells, x, y)[c])
            /\ toggle_wall(toggle_wall(cells, x, y), x, y)[c] = cells[c]

\* The scenario of C15 after its first tick: the 5x5 grid with
\* FUEL_REMAINING = 2, HEAT_TO_IGNITE = 1, ASH_TIME = 1, the fire started in
\* the centre.
CentreFireAfterOneTick ==
    /\ GRID_SIZE = 5 /\ FUEL_REMAINING = 2 /\ HEAT_TO_IGNITE = 1 /\ ASH_TIME = 1
    /\ origin = <<2, 2>>
    /\ ticks = 1

HeatZeroAfterIgnition ==
    [][\A p \in Pos :
        /\ (~cells[p].ignited /\ cells'[p].ignited) => cells'[p].heat = 0
        /\ (cells[p].ash /\ ~cells'[p].ash) =>
                cells'[p].heat = 0 /\ cells'[p].time_as_ash = 0]_vars

\* C16, amended: ignition does not reset the heat: a cell a tick ignites has
\* heat >= HEAT_TO_IGNITE, a cell ignite_cell ignites keeps the heat it had.
\* The heat is reset when the cell is extinguished, so right after a refresh
\* the heat and time_as_ash are 0.
HeatResetOnExtinguish ==
    [][\A p \in Pos :
        /\ (~cells[p].ignited /\ cells'[p].ignited) =>
                IF IsTick
                THEN cells'[p].heat >= HEAT_TO_IGNITE /\ cells'[p].heat > cells[p].heat
                ELSE cells'[p].heat = cells[p].heat
        /\ (cells[p].ignited /\ ~cells'[p].ignited) =>
                cells'[p].ash /\ cells'[p].heat = 0
        /\ (cells[p].ash /\ ~cells'[p].ash) =>
                cells'[p].heat = 0 /\ cells'[p].time_as_ash = 0]_vars

\* C16 witness: p was ignited by the last tick and holds the heat that
\* ignited it; q was ignited by a click and holds the heat it had gathered.
HeatResetOnExtinguishWitness ==
    \E p, q \in Pos :
        /\ ticks > 0
        /\ cells[p].ignited /\ cells[p].ignited_this_tick
        /\ cells[p].heat >= HEAT_TO_IGNITE
        /\ cells[q].ignited /\ ~cells[q].wall
        /\ cells[q].heat > 0 /\ cells[q].heat < HEAT_TO_IGNITE

\* Every position of every grid size the runs are loaded with.
AllPos == UNION {(0 .. c.GRID_SIZE - 1) \X (0 .. c.GRID_SIZE - 1) : c \in TimerConfigs}

\* C17: with update_cells called again and again and no toggle_wall, every
\* ignited cell that is not a wall eventually is ash, and every ash cell
\* eventually is dormant with full fuel.
CycleCompletes ==
    \A p \in AllPos :
        /\ (cells[p].ignited /\ ~cells[p].wall) ~> cells[p].ash
        /\ cells[p].ash ~>
                (Dormant(cells[p]) /\ cells[p].fuel_remaining = FUEL_REMAINING)

\* C17 witness: one cell is burning, lit by the heat of its neighbours, while
\* another has burnt down to ash and waits for its refresh.
CycleCompletesWitness ==
    \E p, q \in Pos :
        /\ Ignited(cells[p]) /\ cells[p].heat >= HEAT_TO_IGNITE
        /\ Ash(cells[q]) /\ cells[q].time_as_ash = ASH_TIME

\* The in-grid cells directly above, below, left and right of p.
Orthogonal(p) ==
    {<<p[1] - 1, p[2]>>, <<p[1] + 1, p[2]>>,
     <<p[1], p[2] - 1>>, <<p[1], p[2] + 1>>} \cap Pos

\* C18: when the program starts every neighbour list holds exactly the
\* in-grid cells orthogonally adjacent to its cell, each once and never the
\* cell itself, and the relation is symmetric; no step of the program changes
\* the lists afterwards.
NeighboursOrthogonal ==
    [][/\ (ticks = 0 /\ clicks = 0) =>
            /\ DOMAIN neighbours = Pos
            /\ \A p \in Pos :
                /\ NeighbourSet(p) = Orthogonal(p)
                /\ Len(neighbours[p]) = Cardinality(NeighbourSet(p))
                /\ p \notin NeighbourSet(p)
                /\ \A q \in Pos : q \in NeighbourSet(p) <=> p \in NeighbourSet(q)
       /\ neighbours' = neighbours]_vars

\* C18 witness: after ticks and clicks that left a wall and a burning cell,
\* an inner cell has four neighbours, an edge cell three and a corner two.
NeighboursOrthogonalWitness ==
    /\ ticks > 0
    /\ \E p, q \in Pos : cells[p].wall /\ cells[q].ignited
    /\ \E p, q, r \in Pos :
        /\ Len(neighbours[p]) = 4
        /\ Len(neighbours[q]) = 3
        /\ Len(neighbours[r]) = 2

\* C19: a wall is never counted as burning by a neighbour.
WallNeverBurning ==
    \A p \in Pos : cells[p].wall => ~(cells[p].ignited /\ ~cells[p].ignited_this_tick)

\* C19 witness: ticks have passed, a wall carries the ignited flag, and the
\* cells next to it are dormant and have gathered no heat.
WallNeverBurningWitness ==
    /\ ticks > 0
    /\ \E p \in Pos :
        /\ cells[p].wall /\ cells[p].ignited
        /\ \A q \in NeighbourSet(p) : Dormant(cells[q]) /\ cells[q].heat = 0

\* C20: the counters of every cell agree with its combustion flags.
CountersCoupled ==
    \A p \in Pos :
        LET cell == cells[p]
        IN  /\ (~cell.ignited /\ ~cell.ash) =>
                /\ cell.fuel_remaining = FUEL_REMAINING
                /\ cell.heat < HEAT_TO_IGNITE
            /\ cell.ash =>
                /\ cell.fuel_remaining = 0
                /\ cell.heat = 0
                /\ 0 <= cell.time_as_ash /\ cell.time_as_ash <= ASH_TIME
            /\ cell.ignited =>
                /\ 1 <= cell.fuel_remaining
                /\ cell.fuel_remaining <= FUEL_REMAINING
            /\ ~cell.ash => cell.time_as_ash = 0
            /\ cell.ignited_this_tick => cell.ignited

\* C20 witness: a cell warmed short of the threshold, a cell on its last unit
\* of fuel, lit by its neighbours, and an ash cell about to be refreshed.
CountersCoupledWitness ==
    \E p, q, r \in Pos :
        /\ Dormant(cells[p]) /\ cells[p].heat = HEAT_TO_IGNITE - 1
        /\ cells[p].heat > 0
        /\ Ignited(cells[q]) /\ cells[q].fuel_remaining = 1
        /\ cells[q].heat >= HEAT_TO_IGNITE
        /\ Ash(cells[r]) /\ cells[r].time_as_ash = ASH_TIME

====
